---- MODULE Spec2Model ----
(***************************************************************************)
(* A model of capsule-to-epub (src/main.py): the URL resolution            *)
(* (absolutise_url), the gemtext renderer (gemtext_to_html), the protocol  *)
(* client (read_url), the link extraction (extract_posts) and the two      *)
(* drivers (get_url_list, process_url_list).                               *)
(*                                                                         *)
(* A Python str is a sequence of one-character strings, so that slicing,   *)
(* find, startswith, split and replace are computed as the code computes   *)
(* them.  The URL alphabet used by the inputs leaves out '#' and ';'       *)
(* (fragments and path parameters) and upper-case scheme letters.  A value *)
(* the code names and uses more than once is a parameter of the operator   *)
(* that uses it.                                                           *)
(***************************************************************************)
EXTENDS Integers, Sequences, FiniteSets, TLC

(***************************************************************************)
(* Python str primitives                                                   *)
(***************************************************************************)
\* s[i:j] for 0 <= i, with Python's clipping of j to len(s)
Slice(s, i, j) == IF j <= i THEN <<>> ELSE SubSeq(s, i + 1, IF j > Len(s) THEN Len(s) ELSE j)

\* s[i:]
SliceFrom(s, i) == SubSeq(s, i + 1, Len(s))

\* s[:k], where a negative k counts from the end
SliceTo(s, k) == SubSeq(s, 1, IF k < 0 THEN Len(s) + k ELSE IF k > Len(s) THEN Len(s) ELSE k)

\* s.startswith(p, i) with i counted from 0
StartsWithAt(s, p, i) == /\ i + Len(p) <= Len(s)
                         /\ \A k \in 1..Len(p) : s[i + k] = p[k]

StartsWith(s, p) == StartsWithAt(s, p, 0)

EndsWith(s, p) == Len(p) <= Len(s) /\ StartsWithAt(s, p, Len(s) - Len(p))

\* s.find(p, start): the first index >= start where p occurs, or -1
RECURSIVE Find(_, _, _)
Find(s, p, start) == IF start + Len(p) > Len(s) THEN -1
                     ELSE IF StartsWithAt(s, p, start) THEN start
                     ELSE Find(s, p, start + 1)

\* p in s
Contains(s, p) == Find(s, p, 0) # -1

\* s.replace(old, new): every non-overlapping occurrence, left to right
RECURSIVE Replace(_, _, _)
ReplaceAt(s, old, new, i) ==
    IF i = -1 THEN s
    ELSE SubSeq(s, 1, i) \o new \o Replace(SliceFrom(s, i + Len(old)), old, new)

Replace(s, old, new) == ReplaceAt(s, old, new, Find(s, old, 0))

\* s.split(sep): the list of pieces between occurrences of sep
RECURSIVE Split(_, _)
SplitAt(s, sep, i) ==
    IF i = -1 THEN <<s>>
    ELSE <<SubSeq(s, 1, i)>> \o Split(SliceFrom(s, i + Len(sep)), sep)

Split(s, sep) == SplitAt(s, sep, Find(s, sep, 0))

\* sep.join(parts)
RECURSIVE Join(_, _)
Join(parts, sep) ==
    IF Len(parts) = 0 THEN <<>>
    ELSE IF Len(parts) = 1 THEN parts[1]
    ELSE parts[1] \o sep \o Join(Tail(parts), sep)

\* the characters str.strip(), str.split() and the regex class \s treat as blank
Whitespace == {" ", "\t"}

RECURSIVE LStrip(_)
LStrip(s) == IF Len(s) > 0 /\ s[1] \in Whitespace THEN LStrip(Tail(s)) ELSE s

RECURSIVE RStrip(_)
RStrip(s) == IF Len(s) > 0 /\ s[Len(s)] \in Whitespace
             THEN RStrip(SubSeq(s, 1, Len(s) - 1)) ELSE s

\* s.strip()
Strip(s) == LStrip(RStrip(s))

\* the elements of a sequence that are not in the set drop, in order
RECURSIVE Without(_, _)
Without(s, drop) ==
    IF Len(s) = 0 THEN <<>>
    ELSE (IF s[1] \in drop THEN <<>> ELSE <<s[1]>>) \o Without(Tail(s), drop)

\* the first index >= start of a blank character, or len(s): where \S+ stops
RECURSIVE EndOfToken(_, _)
EndOfToken(s, start) ==
    IF start >= Len(s) \/ s[start + 1] \in Whitespace THEN start
    ELSE EndOfToken(s, start + 1)

\* the first index >= start of a non-blank character, or len(s): where \s* stops
RECURSIVE SkipBlank(_, _)
SkipBlank(s, start) ==
    IF start >= Len(s) \/ s[start + 1] \notin Whitespace THEN start
    ELSE SkipBlank(s, start + 1)

\* str.split(): the blank-separated tokens of s
RECURSIVE SplitBlank(_)
TokenAt(t, e) == <<SubSeq(t, 1, e)>> \o SplitBlank(SliceFrom(t, e))

SplitTokens(t) == IF Len(t) = 0 THEN <<>> ELSE TokenAt(t, EndOfToken(t, 0))

SplitBlank(s) == SplitTokens(LStrip(s))

(***************************************************************************)
(* urllib.parse.urlsplit / urlunsplit / urljoin, as absolutise_url uses    *)
(* them                                                                    *)
(***************************************************************************)
Letters == {"a", "b", "c", "e", "g", "h", "i", "l", "m", "n", "o", "p", "q", "r",
            "s", "t", "x", "y", "z"}
Digits == <<"0", "1", "2", "3", "4", "5", "6", "7", "8", "9">>
DigitSet == {"0", "1", "2", "3", "4", "5", "6", "7", "8", "9"}
SchemeChars == Letters \cup DigitSet \cup {"+", "-", "."}

HTTP == <<"h", "t", "t", "p">>
HTTPS == <<"h", "t", "t", "p", "s">>
\* the schemes of urllib's uses_relative and uses_netloc that the inputs can name
UsesRelative == {<<>>, HTTP, HTTPS}
UsesNetloc == {<<>>, HTTP, HTTPS}

\* urlsplit drops leading blanks and every tab from the URL before splitting it
RemoveUnsafe(u) == Without(LStrip(u), {"\t"})

\* url[:i] is a scheme: i > 0, a letter first, scheme characters only
HasScheme(u, i) == /\ i > 0
                   /\ u[1] \in Letters
                   /\ \A k \in 1..i : u[k] \in SchemeChars

\* _splitnetloc: the first index >= k of '/' or '?', or the length
RECURSIVE NetlocEnd(_, _)
NetlocEnd(rest, k) == IF k >= Len(rest) \/ rest[k + 1] \in {"/", "?"} THEN k
                      ELSE NetlocEnd(rest, k + 1)

SplitQueryAt(scheme, loc, rest, q) ==
    [scheme |-> scheme,
     netloc |-> loc,
     path   |-> IF q = -1 THEN rest ELSE SubSeq(rest, 1, q),
     query  |-> IF q = -1 THEN <<>> ELSE SliceFrom(rest, q + 1)]

SplitQuery(scheme, loc, rest) == SplitQueryAt(scheme, loc, rest, Find(rest, <<"?">>, 0))

SplitNetlocAt(scheme, rest, delim) ==
    SplitQuery(scheme, Slice(rest, 2, delim), SliceFrom(rest, delim))

SplitNetloc(scheme, rest) ==
    IF StartsWith(rest, <<"/", "/">>) THEN SplitNetlocAt(scheme, rest, NetlocEnd(rest, 2))
    ELSE SplitQuery(scheme, <<>>, rest)

SplitSchemeAt(u, default, i) ==
    IF HasScheme(u, i) THEN SplitNetloc(SubSeq(u, 1, i), SliceFrom(u, i + 1))
    ELSE SplitNetloc(default, u)

SplitScheme(u, default) == SplitSchemeAt(u, default, Find(u, <<":">>, 0))

\* urlsplit(url, scheme=default): [scheme, netloc, path, query]; no URL of the
\* inputs holds a "#", so the fragment is always empty and is left out
UrlSplit(url0, default) == SplitScheme(RemoveUnsafe(url0), default)

\* urllib.parse.urlparse(url).netloc
Netloc(u) == UrlSplit(u, <<>>).netloc

\* urlunsplit: the netloc part is written
WithNetloc(scheme, loc, path) ==
    \/ Len(loc) > 0
    \/ (Len(scheme) > 0 /\ scheme \in UsesNetloc /\ ~StartsWith(path, <<"/", "/">>))

Rooted(path) == IF Len(path) > 0 /\ path[1] # "/" THEN <<"/">> \o path ELSE path

AddScheme(scheme, rest) == IF Len(scheme) > 0 THEN scheme \o <<":">> \o rest ELSE rest

AddQuery(rest, query) == IF Len(query) > 0 THEN rest \o <<"?">> \o query ELSE rest

\* urlunsplit((scheme, netloc, path, query, ''))
UrlUnsplit(scheme, loc, path, query) ==
    AddQuery(AddScheme(scheme, IF WithNetloc(scheme, loc, path)
                               THEN <<"/", "/">> \o loc \o Rooted(path)
                               ELSE path),
             query)

\* the '..' / '.' folding loop of urljoin over the path segments
RECURSIVE ResolveSegments(_, _)
ResolveSegments(segments, resolved) ==
    IF Len(segments) = 0 THEN resolved
    ELSE ResolveSegments(Tail(segments),
             IF segments[1] = <<".", ".">>
             THEN (IF Len(resolved) = 0 THEN resolved
                   ELSE SubSeq(resolved, 1, Len(resolved) - 1))
             ELSE IF segments[1] = <<".">> THEN resolved
             ELSE Append(resolved, segments[1]))

\* base_parts: the segments of the base path, without the last when it names no directory
DropFile(parts) == IF parts[Len(parts)] # <<>> THEN SubSeq(parts, 1, Len(parts) - 1) ELSE parts

\* segments[1:-1] = filter(None, segments[1:-1])
Squeeze(raw) == IF Len(raw) <= 2 THEN raw
                ELSE <<raw[1]>> \o Without(SubSeq(raw, 2, Len(raw) - 1), {<<>>})
                     \o <<raw[Len(raw)]>>

Segments(bpath, path) ==
    IF StartsWith(path, <<"/">>) THEN Split(path, <<"/">>)
    ELSE Squeeze(DropFile(Split(bpath, <<"/">>)) \o Split(path, <<"/">>))

WithTrailing(segments, resolved) ==
    IF segments[Len(segments)] \in {<<".">>, <<".", ".">>} THEN Append(resolved, <<>>)
    ELSE resolved

OrRoot(path) == IF Len(path) = 0 THEN <<"/">> ELSE path

PathOf(segments) ==
    OrRoot(Join(WithTrailing(segments, ResolveSegments(segments, <<>>)), <<"/">>))

JoinPath(b, u, loc) ==
    IF Len(u.path) = 0
    THEN UrlUnsplit(u.scheme, loc, b.path, IF Len(u.query) = 0 THEN b.query ELSE u.query)
    ELSE UrlUnsplit(u.scheme, loc, PathOf(Segments(b.path, u.path)), u.query)

JoinParsed(ref, b, u) ==
    IF u.scheme # b.scheme \/ u.scheme \notin UsesRelative THEN ref
    ELSE IF u.scheme \in UsesNetloc /\ Len(u.netloc) > 0
    THEN UrlUnsplit(u.scheme, u.netloc, u.path, u.query)
    ELSE JoinPath(b, u, IF u.scheme \in UsesNetloc THEN b.netloc ELSE u.netloc)

JoinWithBase(ref, b) == JoinParsed(ref, b, UrlSplit(ref, b.scheme))

\* urllib.parse.urljoin(base, url)
UrlJoin(base, ref) ==
    IF Len(base) = 0 THEN ref
    ELSE IF Len(ref) = 0 THEN base
    ELSE JoinWithBase(ref, UrlSplit(base, <<>>))

(***************************************************************************)
(* absolutise_url                                                          *)
(***************************************************************************)
SCHEME_SEP == <<":", "/", "/">>
GEMINI_PREFIX == <<"g", "e", "m", "i", "n", "i", ":", "/", "/">>
HTTP_PREFIX == <<"h", "t", "t", "p", ":", "/", "/">>

\* if "http://" in base: relative = urllib.parse.urljoin(base, relative)
JoinIfHttp(base, relative) ==
    IF Contains(base, HTTP_PREFIX) THEN UrlJoin(base, relative) ELSE relative

\* the body of 'if "gemini://" in base', base already with http:// for gemini://,
\* and the test of http:// that follows it
ViaHttp(base, relative) ==
    JoinIfHttp(base, Replace(UrlJoin(base, relative), HTTP_PREFIX, GEMINI_PREFIX))

\* absolutise_url without its first test, the one that returns a reference
\* holding "://" as it is
absolutise_url_unguarded(base, relative) ==
    IF Contains(base, GEMINI_PREFIX)
    THEN ViaHttp(Replace(base, GEMINI_PREFIX, HTTP_PREFIX), relative)
    ELSE JoinIfHttp(base, relative)

absolutise_url(base, relative) ==
    IF Contains(relative, SCHEME_SEP) THEN relative
    ELSE IF Contains(base, GEMINI_PREFIX)
    THEN ViaHttp(Replace(base, GEMINI_PREFIX, HTTP_PREFIX), relative)
    ELSE JoinIfHttp(base, relative)

(***************************************************************************)
(* convert_single_line and gemtext_to_html                                 *)
(***************************************************************************)
NL == <<"\n">>
\* the backquote character, which a TLA+ string cannot hold
BQ == "bq"
FENCE == <<BQ, BQ, BQ>>
PRE_OPEN == <<"<", "p", "r", "e", ">">>
PRE_CLOSE == <<"<", "/", "p", "r", "e", ">">>
UL_OPEN == <<"<", "u", "l", ">", "\n">>
UL_CLOSE == <<"<", "/", "u", "l", ">", "\n">>
LI_OPEN == <<"<", "l", "i", ">">>
NONE_STR == <<"N", "o", "n", "e">>

\* f"<{tag}>{inner}</{tag}>"
Element(tag, inner) == <<"<">> \o tag \o <<">">> \o inner \o <<"<", "/">> \o tag \o <<">">>

\* f"<p><a href='{href}'>{inner}</a></p>"
Anchor(href, inner) ==
    <<"<", "p", ">", "<", "a", " ", "h", "r", "e", "f", "=", "'">> \o href
    \o <<"'", ">">> \o inner \o <<"<", "/", "a", ">", "<", "/", "p", ">">>

\* inner_text: the stripped second group, or href when the group is missing
\* or reads "None"
InnerText(href, group, label) ==
    IF Len(group) = 0 \/ label = NONE_STR THEN href ELSE label

\* the pattern ^=>\s*(\S+)(\s+.*)? on a line that starts with "=>": it matches
\* when a token follows the blanks
ConvertLinkTo(gmi_line, base, hrefAt, hrefEnd) ==
    IF hrefEnd > hrefAt
    THEN Anchor(absolutise_url(base, Slice(gmi_line, hrefAt, hrefEnd)),
                InnerText(Slice(gmi_line, hrefAt, hrefEnd), SliceFrom(gmi_line, hrefEnd),
                          Strip(SliceFrom(gmi_line, hrefEnd))))
    ELSE Element(<<"p">>, gmi_line)

ConvertLink(gmi_line, base, hrefAt) ==
    ConvertLinkTo(gmi_line, base, hrefAt, EndOfToken(gmi_line, hrefAt))

\* the prefix patterns of tags_dict, in the order of the dictionary
convert_single_line(gmi_line, base) ==
    IF StartsWith(gmi_line, <<"#", " ">>)
    THEN Element(<<"h", "1">>, Strip(SliceFrom(gmi_line, 2)))
    ELSE IF StartsWith(gmi_line, <<"#", "#", " ">>)
    THEN Element(<<"h", "2">>, Strip(SliceFrom(gmi_line, 3)))
    ELSE IF StartsWith(gmi_line, <<"#", "#", "#", " ">>)
    THEN Element(<<"h", "3">>, Strip(SliceFrom(gmi_line, 4)))
    ELSE IF StartsWith(gmi_line, <<"*", " ">>)
    THEN Element(<<"l", "i">>, Strip(SliceFrom(gmi_line, 2)))
    ELSE IF StartsWith(gmi_line, <<">", " ">>)
    THEN Element(<<"b", "l", "o", "c", "k", "q", "u", "o", "t", "e">>,
                 Strip(SliceFrom(gmi_line, 2)))
    ELSE IF StartsWith(gmi_line, <<"=", ">">>)
    THEN ConvertLink(gmi_line, base, SkipBlank(gmi_line, 2))
    ELSE Element(<<"p">>, gmi_line)

\* the last three branches of the loop body: html_line is a list item, follows
\* one, or neither
GemConverted(in_list, html_line) ==
    IF StartsWith(html_line, LI_OPEN)
    THEN [preformat |-> FALSE, in_list |-> TRUE,
          out |-> (IF ~in_list THEN UL_OPEN ELSE <<>>) \o html_line \o NL]
    ELSE IF in_list
    THEN [preformat |-> FALSE, in_list |-> FALSE, out |-> UL_CLOSE \o html_line \o NL]
    ELSE [preformat |-> FALSE, in_list |-> FALSE, out |-> html_line \o NL]

\* the loop body on the stripped line
GemStripped(preformat, in_list, line, base) ==
    IF Len(line) = 0
    THEN [preformat |-> preformat, in_list |-> in_list, out |-> NL]
    ELSE IF StartsWith(line, FENCE) \/ EndsWith(line, FENCE)
    THEN [preformat |-> ~preformat, in_list |-> in_list,
          out |-> Replace(line, FENCE, IF ~preformat THEN PRE_OPEN ELSE PRE_CLOSE) \o NL]
    ELSE IF preformat
    THEN [preformat |-> preformat, in_list |-> in_list, out |-> line \o NL]
    ELSE GemConverted(in_list, convert_single_line(line, base))

\* one pass of the loop body of gemtext_to_html over one line of text.split("\n"):
\* the two flags after the line and the text appended to html (the line break
\* of the end of the loop body included)
GemStep(preformat, in_list, rawline, base) ==
    GemStripped(preformat, in_list, Strip(rawline), base)

\* the loop of gemtext_to_html over the list text.split("\n")
RECURSIVE GemFold(_, _, _, _)
GemRest(rest, s, base) == s.out \o GemFold(rest, s.preformat, s.in_list, base)

GemFold(lines, preformat, in_list, base) ==
    IF Len(lines) = 0 THEN <<>>
    ELSE GemRest(Tail(lines), GemStep(preformat, in_list, lines[1], base), base)

gemtext_to_html(text, base) == GemFold(Split(text, NL), FALSE, FALSE, base)

(***************************************************************************)
(* is_valid_date: datetime.strptime(date_str, "%Y-%m-%d") raises no        *)
(* ValueError                                                              *)
(***************************************************************************)
DigitVal(c) == (CHOOSE i \in 1..10 : Digits[i] = c) - 1

\* the month group of the format's regex, 1[0-2]|0[1-9]|[1-9], matches all of m
MonthForm(m) ==
    \/ Len(m) = 1 /\ m[1] \in DigitSet \ {"0"}
    \/ Len(m) = 2 /\ m[1] = "1" /\ m[2] \in {"0", "1", "2"}
    \/ Len(m) = 2 /\ m[1] = "0" /\ m[2] \in DigitSet \ {"0"}

\* the day group, 3[0-1]|[1-2]\d|0[1-9]|[1-9]| [1-9], matches all of d
DayForm(d) ==
    \/ Len(d) = 1 /\ d[1] \in DigitSet \ {"0"}
    \/ Len(d) = 2 /\ d[1] = "3" /\ d[2] \in {"0", "1"}
    \/ Len(d) = 2 /\ d[1] \in {"1", "2"} /\ d[2] \in DigitSet
    \/ Len(d) = 2 /\ d[1] \in {"0", " "} /\ d[2] \in DigitSet \ {"0"}

\* int() of a group of the regex
RECURSIVE Number(_)
Number(s) == IF Len(s) = 0 THEN 0
             ELSE IF s[Len(s)] = " " THEN 0
             ELSE 10 * Number(SubSeq(s, 1, Len(s) - 1)) + DigitVal(s[Len(s)])

IsLeap(y) == (y % 4 = 0 /\ y % 100 # 0) \/ y % 400 = 0

DaysInMonth(y, m) == IF m = 2 THEN (IF IsLeap(y) THEN 29 ELSE 28)
                     ELSE IF m \in {4, 6, 9, 11} THEN 30 ELSE 31

\* the date the groups name exists
ValidYMD(y, m, d) == y >= 1 /\ d <= DaysInMonth(y, m)

DateParts(y, m, d) == /\ MonthForm(m)
                      /\ DayForm(d)
                      /\ ValidYMD(Number(y), Number(m), Number(d))

DateAt(date_str, dash) ==
    /\ dash # -1
    /\ DateParts(SubSeq(date_str, 1, 4), Slice(date_str, 5, dash), SliceFrom(date_str, dash + 1))

is_valid_date(date_str) ==
    /\ Len(date_str) >= 8
    /\ \A k \in 1..4 : date_str[k] \in DigitSet
    /\ date_str[5] = "-"
    /\ DateAt(date_str, Find(date_str, <<"-">>, 5))

(***************************************************************************)
(* extract_posts                                                           *)
(***************************************************************************)
\* the line leaves the post list and the next-page target as they are
Keep(url_list, next_page) == [url_list |-> url_list, next_page |-> next_page]

\* the two tests that end the loop body
ExtractDated(url_list, next_page, base_url, marker, link_url, link_text, link_time, link_name) ==
    [url_list |-> IF is_valid_date(link_time)
                  THEN Append(url_list, [url |-> absolutise_url(base_url, link_url),
                                         date |-> link_time,
                                         title |-> link_name])
                  ELSE url_list,
     next_page |-> IF marker = link_text THEN <<link_url>> ELSE next_page]

ExtractName(url_list, next_page, base_url, marker, link_url, link_text, link_name_pos) ==
    IF link_name_pos + 1 >= Len(link_text) THEN Keep(url_list, next_page)
    ELSE ExtractDated(url_list, next_page, base_url, marker, link_url, link_text,
                      SliceTo(link_text, link_name_pos),
                      SliceFrom(link_text, link_name_pos + 1))

ExtractText(url_list, next_page, base_url, marker, link_url, link_text) ==
    ExtractName(url_list, next_page, base_url, marker, link_url, link_text,
                Find(link_text, <<" ">>, 0))

ExtractAt(line, url_list, next_page, base_url, marker, link_url_pos, link_separator_pos) ==
    IF link_separator_pos = -1 \/ link_separator_pos = Len(line) - 1
    THEN Keep(url_list, next_page)
    ELSE ExtractText(url_list, next_page, base_url, marker,
                     Slice(line, link_url_pos, link_separator_pos),
                     SliceFrom(line, SkipBlank(line, link_separator_pos)))

ExtractLink(line, url_list, next_page, base_url, marker, link_url_pos) ==
    ExtractAt(line, url_list, next_page, base_url, marker, link_url_pos,
              Find(line, <<" ">>, link_url_pos))

\* one pass of the loop body of extract_posts over one line of the page:
\* the post list and the next-page target after the line; next_page is <<>>
\* for None and <<target>> otherwise
ExtractStep(line, url_list, next_page, base_url, marker) ==
    IF Slice(line, 0, 2) # <<"=", ">">> THEN Keep(url_list, next_page)
    ELSE ExtractLink(line, url_list, next_page, base_url, marker, SkipBlank(line, 2))

\* body.splitlines(): the lines of the body, without an empty piece after a
\* final line break
DropLastEmpty(pieces) ==
    IF pieces[Len(pieces)] = <<>> THEN SubSeq(pieces, 1, Len(pieces) - 1) ELSE pieces

SplitLines(body) == DropLastEmpty(Split(body, NL))

\* the loop of extract_posts over the lines of the page
RECURSIVE ExtractFold(_, _, _, _, _)
ExtractRest(rest, s, base_url, marker) ==
    ExtractFold(rest, s.url_list, s.next_page, base_url, marker)

ExtractFold(lines, url_list, next_page, base_url, marker) ==
    IF Len(lines) = 0 THEN Keep(url_list, next_page)
    ELSE ExtractRest(Tail(lines),
                     ExtractStep(lines[1], url_list, next_page, base_url, marker),
                     base_url, marker)

extract_posts(body, url_list, base_url, marker) ==
    ExtractFold(SplitLines(body), url_list, <<>>, base_url, marker)

(***************************************************************************)
(* Resolution of one reference against one base, applied once and then     *)
(* once more to its own result                                             *)
(***************************************************************************)
VARIABLES u_pc, u_base, u_rel, u_once, u_twice

urlVars == <<u_pc, u_base, u_rel, u_once, u_twice>>

UrlBases == {<<"g", "e", "m", "i", "n", "i", ":", "/", "/", "h", "/", "p", "o", "s", "t", "s">>,
             <<"g", "e", "m", "i", "n", "i", ":", "/", "/", "h", "/", "a", "/", "b", "/">>,
             <<"g", "e", "m", "i", "n", "i", ":", "/", "/", "h">>,
             <<"h", "t", "t", "p", ":", "/", "/", "h", "/", "p", "o", "s", "t", "s">>,
             <<"h", "t", "t", "p", "s", ":", "/", "/", "h", "/", "x">>,
             <<"h", "/", "p", "o", "s", "t", "s">>,
             <<>>}

UrlRefs == {<<"/", "p", "o", "s", "t", "s", "/", "x">>,
            <<"x">>,
            <<".", ".", "/", "y">>,
            <<".", "/", "z">>,
            <<>>,
            <<"g", "e", "m", "i", "n", "i", ":", "/", "/", "o", "/", "q">>,
            <<"h", "t", "t", "p", ":", "/", "/", "o", "/", "q">>,
            <<"m", "a", "i", "l", "t", "o", ":", "a">>,
            <<"/", "/", "o", "/", "r">>,
            <<"?", "q">>,
            <<"a", "/", ".", "/", "b", "/", ".", ".", "/", "c">>,
            <<"h", "t", "t", "p", ":", "x">>,
            <<".", ".">>,
            <<"a", "/", "/", "b">>,
            <<"/", "p", "\t", "1">>}

UrlOff == /\ u_pc = "off"
          /\ u_base = <<>>
          /\ u_rel = <<>>
          /\ u_once = <<>>
          /\ u_twice = <<>>

UrlInit == /\ u_pc = "start"
           /\ u_base \in UrlBases
           /\ u_rel \in UrlRefs
           /\ u_once = <<>>
           /\ u_twice = <<>>

\* relative = absolutise_url(base, relative)
Resolve == /\ u_pc = "start"
           /\ u_once' = absolutise_url(u_base, u_rel)
           /\ u_pc' = "once"
           /\ UNCHANGED <<u_base, u_rel, u_twice>>

\* the same call on the value the first call returned
ResolveAgain == /\ u_pc = "once"
                /\ u_twice' = absolutise_url(u_base, u_once)
                /\ u_pc' = "twice"
                /\ UNCHANGED <<u_base, u_rel, u_once>>

(***************************************************************************)
(* gemtext_to_html as the loop it is: one step per line of the text        *)
(***************************************************************************)
VARIABLES g_pc, g_text, g_i, g_preformat, g_in_list, g_html, g_trace, g_calls

renderVars == <<g_pc, g_text, g_i, g_preformat, g_in_list, g_html, g_trace, g_calls>>

\* the longest text rendered, in lines
MaxLines == 4

RenderLines == {<<"*", " ", "a">>,
                <<"*", " ", "b">>,
                <<>>,
                <<BQ, BQ, BQ>>,
                <<"p">>,
                <<" ", " ", "x", " ">>,
                <<"=", ">", " ", "y", " ", "l">>}

\* the url argument of the rendered post
RenderUrl == <<"g", "e", "m", "i", "n", "i", ":", "/", "/", "h", "/", "p", "/", "1">>

RenderOff == /\ g_pc = "off"
             /\ g_text = <<>>
             /\ g_i = 0
             /\ g_preformat = FALSE
             /\ g_in_list = FALSE
             /\ g_html = <<>>
             /\ g_trace = <<>>
             /\ g_calls = <<>>

\* g_text is text.split("\n"), which has at least one element; both flags
\* start false and html empty
RenderInit == /\ g_pc = "loop"
              /\ g_text \in UNION {[1..n -> RenderLines] : n \in 1..MaxLines}
              /\ g_i = 0
              /\ g_preformat = FALSE
              /\ g_in_list = FALSE
              /\ g_html = <<>>
              /\ g_trace = <<>>
              /\ g_calls = <<>>

\* the flags and html after the step s of the loop; g_trace keeps, for each
\* line, the flags the line found and the text it appended
RenderTake(s) ==
    /\ g_preformat' = s.preformat
    /\ g_in_list' = s.in_list
    /\ g_html' = g_html \o s.out
    /\ g_trace' = Append(g_trace, [preformat |-> g_preformat, in_list |-> g_in_list,
                                   out |-> s.out])

\* the body of "for line in text.split('\n')" on the next line
RenderLine ==
    /\ g_pc = "loop"
    /\ g_i < Len(g_text)
    /\ RenderTake(GemStep(g_preformat, g_in_list, g_text[g_i + 1], RenderUrl))
    /\ g_i' = g_i + 1
    /\ UNCHANGED <<g_pc, g_text, g_calls>>

\* return html; g_calls keeps, for each call that returned, its text, the
\* html it returned and the flags it ended with
RenderReturn ==
    /\ g_pc = "loop"
    /\ g_i = Len(g_text)
    /\ g_pc' = "done"
    /\ g_calls' = Append(g_calls, [text |-> g_text, html |-> g_html,
                                   preformat |-> g_preformat, in_list |-> g_in_list])
    /\ UNCHANGED <<g_text, g_i, g_preformat, g_in_list, g_html, g_trace>>

\* the number of calls of gemtext_to_html that follow one another
MaxCalls == 3

CallLines == {<<"*", " ", "a">>, <<BQ, BQ, BQ>>, <<"p">>}

CallLengths == {1, 2}

\* the texts of the calls that follow one another
CallTexts == UNION {[1..n -> CallLines] : n \in CallLengths}

CallsInit == /\ g_pc = "loop"
             /\ g_text \in CallTexts
             /\ g_i = 0
             /\ g_preformat = FALSE
             /\ g_in_list = FALSE
             /\ g_html = <<>>
             /\ g_trace = <<>>
             /\ g_calls = <<>>

\* what the locals would be if they outlived the call: the flags of the
\* call before stay
RenderEnterKeeping ==
    /\ g_i' = 0
    /\ g_html' = <<>>
    /\ g_trace' = <<>>
    /\ UNCHANGED <<g_preformat, g_in_list>>

\* the entry of gemtext_to_html: preformat = False, in_list = False,
\* html = ""
RenderEnter ==
    /\ g_i' = 0
    /\ g_preformat' = FALSE
    /\ g_in_list' = FALSE
    /\ g_html' = <<>>
    /\ g_trace' = <<>>

\* the next call of gemtext_to_html, on any text
RenderCall ==
    /\ g_pc = "done"
    /\ Len(g_calls) < MaxCalls
    /\ g_pc' = "loop"
    /\ g_text' \in CallTexts
    /\ RenderEnter
    /\ UNCHANGED g_calls

(***************************************************************************)
(* extract_posts as the loop it is: one step per line of the page          *)
(***************************************************************************)
VARIABLES e_pc, e_body, e_marker, e_i, e_url_list, e_next_page, e_trace

extractVars == <<e_pc, e_body, e_marker, e_i, e_url_list, e_next_page, e_trace>>

\* the longest page parsed, in lines
MaxPageLines == 2

\* BASE_URL, the positional argument of the command line
BASE_URL == <<"g", "e", "m", "i", "n", "i", ":", "/", "/", "h", "/", "p", "o", "s", "t", "s">>

\* the default of --next-page
DEFAULT_NEXT_PAGE == <<"O", "l", "d", "e", "r", " ", "p", "o", "s", "t", "s">>

PageLines == {<<"=", ">", " ", "/", "p", "/", "1", " ", "2", "0", "2", "4", "-", "0", "3", "-", "0", "1", " ", "M", "y", " ", "T">>,
              <<"=", ">", " ", "/", "p", "/", "2", " ", "2", "0", "2", "4", "-", "0", "3", "-", "1", "5">>,
              <<"=", ">", " ", "/", "p", "o", "s", "t", "s", "/", "p", "2", " ", "O", "l", "d", "e", "r", " ", "p", "o", "s", "t", "s">>,
              <<"=", ">", " ", "/", "p", "o", "s", "t", "s", "/", "p", "3", " ", "N", "e", "x", "t">>,
              <<"=", ">", "\t", "/", "p", "o", "s", "t", "s", "/", "p", "4", "\t", "O", "l", "d", "e", "r", " ", "p", "o", "s", "t", "s">>,
              <<"=", ">", " ", "/", "p", "/", "3", " ", "2", "0", "2", "4", "-", "0", "2", "-", "3", "0", " ", "B", "a", "d">>,
              <<"p", "l", "a", "i", "n", " ", "t", "e", "x", "t">>,
              <<"=", ">", " ", "/", "o", "n", "l", "y">>,
              <<"=", ">", " ", "/", "p", "/", "6", " ", "2", "0", "2", "4", "-", "0", "3", "-", "0", "1", "1">>,
              <<>>,
              <<"=", ">", " ", "/", "p", "o", "s", "t", "s", "/", "p", "5", " ", "2", "0", "2", "4", "-", "0", "3", "-", "0", "1", " ", "M", "o", "r", "e">>,
              <<"=", ">", "/", "p", "/", "7", " ", "2", "0", "2", "4", "-", "3", "-", "1", " ", "T">>}

\* the values of TEXT_FOR_NEXT_PAGE
Markers == {<<"O", "l", "d", "e", "r", " ", "p", "o", "s", "t", "s">>,
            <<"N", "e", "x", "t">>,
            <<"2", "0", "2", "4", "-", "0", "3", "-", "0", "1", " ", "M", "o", "r", "e">>}

ExtractOff == /\ e_pc = "off"
              /\ e_body = <<>>
              /\ e_marker = <<>>
              /\ e_i = 0
              /\ e_url_list = <<>>
              /\ e_next_page = <<>>
              /\ e_trace = <<>>

\* e_body is body.splitlines(); url_list is empty and next_page None
ExtractInit == /\ e_pc = "loop"
               /\ e_body \in UNION {[1..n -> PageLines] : n \in 0..MaxPageLines}
               /\ e_marker \in Markers
               /\ e_i = 0
               /\ e_url_list = <<>>
               /\ e_next_page = <<>>
               /\ e_trace = <<>>

\* url_list and next_page after the step s of the loop; e_trace keeps, for each
\* line, the posts the line appended and next_page as the line left it
ExtractTake(s) ==
    /\ e_url_list' = s.url_list
    /\ e_next_page' = s.next_page
    /\ e_trace' = Append(e_trace, [added |-> SliceFrom(s.url_list, Len(e_url_list)),
                                   next_page |-> s.next_page])

\* the body of "for line in body.splitlines()" on the next line
ExtractLine ==
    /\ e_pc = "loop"
    /\ e_i < Len(e_body)
    /\ ExtractTake(ExtractStep(e_body[e_i + 1], e_url_list, e_next_page, BASE_URL, e_marker))
    /\ e_i' = e_i + 1
    /\ UNCHANGED <<e_pc, e_body, e_marker>>

\* return url_list, next_page
ExtractReturn ==
    /\ e_pc = "loop"
    /\ e_i = Len(e_body)
    /\ e_pc' = "done"
    /\ UNCHANGED <<e_body, e_marker, e_i, e_url_list, e_next_page, e_trace>>

(***************************************************************************)
(* The program: get_url_list, then process_url_list on its result, each    *)
(* calling read_url; the capsule's answers are chosen by the environment   *)
(***************************************************************************)
VARIABLES pc,             \* where the main flow stands
          current_url,    \* get_url_list
          url_list,       \* get_url_list: the accumulator
          p_url_list,     \* process_url_list: its argument
          p_i,            \* process_url_list: posts of the argument handled
          posts_content,  \* process_url_list: the records
          rpc,            \* where read_url stands
          url,            \* read_url: url
          netloc,         \* read_url: parsed_url.netloc
          status,         \* read_url: status
          mime,           \* read_url: mime
          ret,            \* read_url: the value returned, <<>> for None
          exc,            \* the exception that left read_url, "" for none
          r_hops,         \* answers of this fetch that changed url
          r_selfonly,     \* every answer of this fetch redirected to url itself
          r_why,          \* what decided the value read_url returned
          r_first,        \* the url read_url was called with
          r_inputs,       \* input answers of this fetch
          r_redirected,   \* this fetch got a redirect answer
          r_balance,      \* connections this fetch opened, less its redirect and input answers
          r_header,       \* <<the header line of the last answer>>, <<>> before any
          r_body,         \* <<the bytes read after the header>>, <<>> if none were
          s_host,         \* the host the connection held was opened to
          s_requests,     \* the requests sent on the connection held
          s_line,         \* the url of the last request sent on it
          crawl_log,      \* per index fetch: the url asked for and the value returned
          post_log        \* per post fetch: the same, and what decided it

progVars == <<pc, current_url, url_list, p_url_list, p_i, posts_content>>
obsVars == <<r_first, r_inputs, r_redirected, r_balance, r_header, r_body,
             s_host, s_requests, s_line>>
readVars == <<rpc, url, netloc, status, mime, ret, exc, r_hops, r_selfonly, r_why, obsVars>>
logVars == <<crawl_log, post_log>>
crawlVars == <<pc, current_url, url_list, p_url_list, p_i, posts_content,
               rpc, url, netloc, status, mime, ret, exc, r_hops, r_selfonly, r_why,
               obsVars, crawl_log, post_log>>

\* the longest chain of index pages the capsule serves
MaxPages == 2
\* the most answers within one fetch of the crawl that change the url asked
\* for
MaxHops == 1
\* the same, of a fetch explored on its own
MaxFetchHops == 2

\* the index pages the capsule can serve, as the bytes sent
IndexBodies == {<<"=", ">", " ", "/", "p", "/", "1", " ", "2", "0", "2", "4", "-", "0", "3", "-", "0", "1", " ", "M", "y", " ", "T", "\n", "=", ">", " ", "/", "p", "/", "2", " ", "2", "0", "2", "4", "-", "0", "3", "-", "0", "2", " ", "B", "\n", "=", ">", " ", "/", "p", "o", "s", "t", "s", "/", "p", "2", " ", "O", "l", "d", "e", "r", " ", "p", "o", "s", "t", "s", "\n">>,
                <<"=", ">", " ", "/", "p", "/", "3", " ", "2", "0", "2", "4", "-", "0", "3", "-", "0", "3", " ", "C">>,
                <<"#", " ", "I", "n", "d", "e", "x", "\n", "=", ">", " ", "/", "p", "o", "s", "t", "s", " ", "O", "l", "d", "e", "r", " ", "p", "o", "s", "t", "s">>,
                <<"=", ">", " ", "/", "p", "/", "1", " ", "2", "0", "2", "4", "-", "0", "3", "-", "0", "1", " ", "M", "y", " ", "T", "\n">>}

\* the byte 0xE9, and the character it is in latin-1
E9 == "0xE9"
E_ACUTE == "e-acute"

\* the post pages the capsule can serve, as the bytes sent
PostBodies == {<<"=", ">", " ", "/", "p", "o", "s", "t", "s", " ", "B", "a", "c", "k", "\n", "\n", "#", " ", "T", "\n", "*", " ", "a", "\n", "\n", "E", "O", "T", "\n", "f", "o", "o", "t", "e", "r">>,
               <<"x">>}

\* the pages the capsule can serve to a fetch explored on its own
FetchBodies == PostBodies \cup {<<"c", E9>>}

\* the targets the capsule redirects to, besides the url asked for itself
RedirectMetas == {<<"/", "p", "o", "s", "t", "s">>,
                  <<"g", "e", "m", "i", "n", "i", ":", "/", "/", "o", "/", "x">>}

\* the values typed at the INPUT prompt
Queries == {<<"q">>, <<"a", " ", "b">>}

\* header lines that declare a charset, which the capsule can answer a fetch
\* explored on its own with
CharsetHeaders ==
    {<<"2", "0", " ", "t", "e", "x", "t", "/", "g", "e", "m", "i", "n", "i", ";", " ", "c", "h", "a", "r", "s", "e", "t", "=", "l", "a", "t", "i", "n", "-", "1">>,
     <<"2", "0", " ", "t", "e", "x", "t", "/", "g", "e", "m", "i", "n", "i", ";", "c", "h", "a", "r", "s", "e", "t", "=", "l", "a", "t", "i", "n", "-", "1">>}

\* the header lines the capsule can answer the request for u with
Headers(u) ==
    {<<"2", "0", " ", "t", "e", "x", "t", "/", "g", "e", "m", "i", "n", "i">>,
     <<"2", "0", " ", "i", "m", "a", "g", "e", "/", "p", "n", "g">>,
     <<"5", "1", " ", "N", "o", "t", " ", "f", "o", "u", "n", "d">>,
     <<"1", "0", " ", "Q", "u", "e", "r", "y">>,
     <<"5", "1">>,
     <<>>}
    \cup {<<"3", "0", " ">> \o m : m \in RedirectMetas \cup {u}}
    \cup (IF pc = "fetch" THEN CharsetHeaders ELSE {})

\* no call of read_url is under way
ObsIdle == /\ r_first = <<>>
           /\ r_inputs = 0
           /\ r_redirected = FALSE
           /\ r_balance = 0
           /\ r_header = <<>>
           /\ r_body = <<>>
           /\ s_host = <<>>
           /\ s_requests = 0
           /\ s_line = <<>>

CrawlOff == /\ pc = "off"
            /\ current_url = <<>>
            /\ url_list = <<>>
            /\ p_url_list = <<>>
            /\ p_i = 0
            /\ posts_content = <<>>
            /\ rpc = "idle"
            /\ url = <<>>
            /\ netloc = <<>>
            /\ status = <<>>
            /\ mime = <<>>
            /\ ret = <<>>
            /\ exc = ""
            /\ r_hops = 0
            /\ r_selfonly = TRUE
            /\ r_why = ""
            /\ ObsIdle
            /\ crawl_log = <<>>
            /\ post_log = <<>>

\* get_url_list entered: current_url = BASE_URL, url_list = []
CrawlInit == /\ pc = "get_url_list"
             /\ current_url = BASE_URL
             /\ url_list = <<>>
             /\ p_url_list = <<>>
             /\ p_i = 0
             /\ posts_content = <<>>
             /\ rpc = "idle"
             /\ url = <<>>
             /\ netloc = <<>>
             /\ status = <<>>
             /\ mime = <<>>
             /\ ret = <<>>
             /\ exc = ""
             /\ r_hops = 0
             /\ r_selfonly = TRUE
             /\ r_why = ""
             /\ ObsIdle
             /\ crawl_log = <<>>
             /\ post_log = <<>>

(***************************************************************************)
(* read_url                                                                *)
(***************************************************************************)
\* urllib.parse.quote(query): the characters the inputs use that are not
\* left as they are, with their percent encodings
Percent(c) == IF c = " " THEN <<"%", "2", "0">>
              ELSE IF c = "?" THEN <<"%", "3", "F">>
              ELSE <<c>>

RECURSIVE Quote(_)
Quote(s) == IF Len(s) = 0 THEN <<>> ELSE Percent(s[1]) \o Quote(Tail(s))

TEXT_PREFIX == <<"t", "e", "x", "t", "/">>

\* read_url(u) entered: parsed_url = urllib.parse.urlparse(url)
Call(u) == /\ rpc' = "connect"
           /\ url' = u
           /\ netloc' = Netloc(u)
           /\ status' = <<>>
           /\ mime' = <<>>
           /\ ret' = <<>>
           /\ r_hops' = 0
           /\ r_selfonly' = TRUE
           /\ r_why' = ""
           /\ r_first' = u
           /\ r_inputs' = 0
           /\ r_redirected' = FALSE
           /\ r_balance' = 0
           /\ r_header' = <<>>
           /\ r_body' = <<>>
           /\ s_host' = <<>>
           /\ s_requests' = 0
           /\ s_line' = <<>>
           /\ UNCHANGED exc

\* read_url has handed its value to its caller: its locals are gone
Leave == /\ rpc' = "idle"
         /\ url' = <<>>
         /\ netloc' = <<>>
         /\ status' = <<>>
         /\ mime' = <<>>
         /\ ret' = <<>>
         /\ r_hops' = 0
         /\ r_selfonly' = TRUE
         /\ r_why' = ""
         /\ r_first' = <<>>
         /\ r_inputs' = 0
         /\ r_redirected' = FALSE
         /\ r_balance' = 0
         /\ r_header' = <<>>
         /\ r_body' = <<>>
         /\ s_host' = <<>>
         /\ s_requests' = 0
         /\ s_line' = <<>>
         /\ UNCHANGED exc

\* an exception nothing catches leaves read_url, its caller and the program
Raise(e) == /\ rpc' = "raised"
            /\ exc' = e
            /\ pc' = "crashed"

\* ConnectOk going on with the connection the fetch already holds, if it
\* holds one
ConnectReusing ==
    /\ rpc = "connect"
    /\ rpc' = "send"
    /\ IF s_host = <<>>
       THEN /\ s_host' = netloc
            /\ s_requests' = 0
            /\ s_line' = <<>>
            /\ r_balance' = r_balance + 1
       ELSE UNCHANGED <<s_host, s_requests, s_line, r_balance>>
    /\ UNCHANGED <<progVars, url, netloc, status, mime, ret, exc, r_hops, r_selfonly, r_why,
                   r_first, r_inputs, r_redirected, r_header, r_body, logVars>>

\* s = socket.create_connection((parsed_url.netloc, 1965)) and wrap_socket
\* succeed: s is a new connection, to parsed_url.netloc
ConnectOk ==
    /\ rpc = "connect"
    /\ rpc' = "send"
    /\ s_host' = netloc
    /\ s_requests' = 0
    /\ s_line' = <<>>
    /\ r_balance' = r_balance + 1
    /\ UNCHANGED <<progVars, url, netloc, status, mime, ret, exc, r_hops, r_selfonly, r_why,
                   r_first, r_inputs, r_redirected, r_header, r_body, logVars>>

\* socket.create_connection raises socket.gaierror: printed, return None
ConnectGaierror ==
    /\ rpc = "connect"
    /\ rpc' = "returned"
    /\ ret' = <<>>
    /\ r_why' = "gaierror"
    /\ UNCHANGED <<progVars, url, netloc, status, mime, exc, r_hops, r_selfonly, obsVars,
                   logVars>>

\* socket.create_connection raises another OSError (connection refused, timed
\* out, unreachable): the except clause names socket.gaierror only
ConnectOSError ==
    /\ rpc = "connect"
    /\ Raise("OSError")
    /\ UNCHANGED <<current_url, url_list, p_url_list, p_i, posts_content,
                   url, netloc, status, mime, ret, r_hops, r_selfonly, r_why, obsVars,
                   logVars>>

\* s.sendall((url + "\r\n").encode("UTF-8"))
Send ==
    /\ rpc = "send"
    /\ rpc' = "header"
    /\ s_requests' = s_requests + 1
    /\ s_line' = url
    /\ UNCHANGED <<progVars, url, netloc, status, mime, ret, exc, r_hops, r_selfonly, r_why,
                   r_first, r_inputs, r_redirected, r_balance, r_header, r_body,
                   s_host, logVars>>

\* whether the answer with the tokens t makes the request after the one for u
\* differ from it
ChangesUrl(t, u) ==
    /\ Len(t) >= 2
    /\ \/ StartsWith(t[1], <<"1">>)
       \/ StartsWith(t[1], <<"3">>) /\ absolutise_url(u, t[2]) # u

\* status = split_header[0]; mime = split_header[1]
TakeHeader(split_header) ==
    IF Len(split_header) < 2
    THEN /\ Raise("IndexError")
         /\ UNCHANGED <<status, mime>>
    ELSE /\ status' = split_header[1]
         /\ mime' = split_header[2]
         /\ rpc' = "dispatch"
         /\ UNCHANGED <<pc, exc>>

\* the answers that change the url asked for, that the fetch under way can get
HopLimit == IF pc = "fetch" THEN MaxFetchHops ELSE MaxHops

\* header = fp.readline(); header.decode("UTF-8").strip().split()
ReadHeader ==
    /\ rpc = "header"
    /\ \E h \in Headers(url) :
          /\ r_hops < HopLimit \/ ~ChangesUrl(SplitBlank(Strip(h)), url)
          /\ r_header' = <<h>>
          /\ TakeHeader(SplitBlank(Strip(h)))
    /\ UNCHANGED <<current_url, url_list, p_url_list, p_i, posts_content,
                   url, netloc, ret, r_hops, r_selfonly, r_why,
                   r_first, r_inputs, r_redirected, r_balance, r_body,
                   s_host, s_requests, s_line, logVars>>

\* Redirect with parsed_url left as it was
RedirectSameHost ==
    /\ url' = absolutise_url(url, mime)
    /\ UNCHANGED netloc
    /\ rpc' = "connect"
    /\ r_hops' = IF url' = url THEN r_hops ELSE r_hops + 1
    /\ r_selfonly' = (r_selfonly /\ url' = url)
    /\ r_redirected' = TRUE
    /\ r_balance' = r_balance - 1
    /\ UNCHANGED r_inputs

\* url = absolutise_url(url, mime); parsed_url = urllib.parse.urlparse(url)
Redirect ==
    /\ url' = absolutise_url(url, mime)
    /\ netloc' = Netloc(url')
    /\ rpc' = "connect"
    /\ r_hops' = IF url' = url THEN r_hops ELSE r_hops + 1
    /\ r_selfonly' = (r_selfonly /\ url' = url)
    /\ r_redirected' = TRUE
    /\ r_balance' = r_balance - 1
    /\ UNCHANGED r_inputs

\* the if / elif / else on status that ends the body of "while True"
Dispatch ==
    /\ rpc = "dispatch"
    /\ IF StartsWith(status, <<"1">>)
       THEN /\ \E query \in Queries : url' = url \o <<"?">> \o Quote(query)
            /\ rpc' = "connect"
            /\ r_hops' = r_hops + 1
            /\ r_selfonly' = FALSE
            /\ r_inputs' = r_inputs + 1
            /\ r_balance' = r_balance - 1
            /\ UNCHANGED <<netloc, r_redirected>>
       ELSE IF StartsWith(status, <<"3">>)
       THEN Redirect
       ELSE /\ rpc' = "finish"
            /\ r_selfonly' = FALSE
            /\ UNCHANGED <<url, netloc, r_hops, r_inputs, r_redirected, r_balance>>
    /\ UNCHANGED <<progVars, status, mime, ret, exc, r_why, r_first, r_header,
                   r_body, s_host, s_requests, s_line, logVars>>

\* the bodies the capsule serves to the fetch under way
Bodies == IF pc = "crawl_wait"
          THEN {b \in IndexBodies :
                   \/ Len(crawl_log) + 1 < MaxPages
                   \/ extract_posts(b, <<>>, BASE_URL, DEFAULT_NEXT_PAGE).next_page = <<>>}
          ELSE IF pc = "fetch" THEN FetchBodies
          ELSE PostBodies

CHARSET_PARAM == <<";", "c", "h", "a", "r", "s", "e", "t", "=">>
UTF_8 == <<"U", "T", "F", "-", "8">>
LATIN_1 == <<"l", "a", "t", "i", "n", "-", "1">>

\* m["content-type"] = mime; m.get_param("charset", "UTF-8"), for a mime that
\* is one token: the value after ";charset=", UTF-8 if there is none
Charset(m) == IF Contains(m, CHARSET_PARAM)
              THEN Split(m, CHARSET_PARAM)[2]
              ELSE UTF_8

\* whether bytes.decode(charset) succeeds: the lone byte 0xE9 is a character
\* in latin-1 and no character in UTF-8
Decodes(bytes, charset) ==
    \/ charset = LATIN_1
    \/ charset = UTF_8 /\ \A i \in DOMAIN bytes : bytes[i] # E9

\* bytes.decode(charset), where it succeeds
Decode(bytes, charset) ==
    [i \in DOMAIN bytes |-> IF bytes[i] = E9 THEN E_ACUTE ELSE bytes[i]]

\* body = fp.read(); body = body.decode(m.get_param("charset", "UTF-8"));
\* return body
ReadBody(bytes, charset) ==
    /\ r_body' = <<bytes>>
    /\ IF Decodes(bytes, charset)
       THEN /\ ret' = <<Decode(bytes, charset)>>
            /\ r_why' = "body"
            /\ rpc' = "returned"
            /\ UNCHANGED <<pc, exc>>
       ELSE /\ Raise(IF charset \in {UTF_8, LATIN_1} THEN "UnicodeDecodeError"
                     ELSE "LookupError")
            /\ UNCHANGED <<ret, r_why>>

\* Finish reading the body before it looks at the status
FinishReadingFirst ==
    /\ rpc = "finish"
    /\ IF ~StartsWith(status, <<"2">>)
       THEN /\ \E bytes \in Bodies : r_body' = <<bytes>>
            /\ ret' = <<>>
            /\ r_why' = "status"
            /\ rpc' = "returned"
            /\ UNCHANGED <<pc, exc>>
       ELSE IF StartsWith(mime, TEXT_PREFIX)
       THEN \E bytes \in Bodies : ReadBody(bytes, Charset(mime))
       ELSE /\ ret' = <<>>
            /\ r_why' = "type"
            /\ rpc' = "returned"
            /\ UNCHANGED <<pc, exc, r_body>>
    /\ UNCHANGED <<current_url, url_list, p_url_list, p_i, posts_content,
                   url, netloc, status, mime, r_hops, r_selfonly,
                   r_first, r_inputs, r_redirected, r_balance, r_header,
                   s_host, s_requests, s_line, logVars>>

\* after the loop: None unless the status is a success and the type textual,
\* else the body, read and decoded
Finish ==
    /\ rpc = "finish"
    /\ IF ~StartsWith(status, <<"2">>)
       THEN /\ ret' = <<>>
            /\ r_why' = "status"
            /\ rpc' = "returned"
            /\ UNCHANGED <<pc, exc, r_body>>
       ELSE IF StartsWith(mime, TEXT_PREFIX)
       THEN \E bytes \in Bodies : ReadBody(bytes, Charset(mime))
       ELSE /\ ret' = <<>>
            /\ r_why' = "type"
            /\ rpc' = "returned"
            /\ UNCHANGED <<pc, exc, r_body>>
    /\ UNCHANGED <<current_url, url_list, p_url_list, p_i, posts_content,
                   url, netloc, status, mime, r_hops, r_selfonly,
                   r_first, r_inputs, r_redirected, r_balance, r_header,
                   s_host, s_requests, s_line, logVars>>

(***************************************************************************)
(* get_url_list and process_url_list                                       *)
(***************************************************************************)
\* the top of "while are_more_posts": body = read_url(current_url)
GetUrlListFetch ==
    /\ pc = "get_url_list"
    /\ Call(current_url)
    /\ pc' = "crawl_wait"
    /\ UNCHANGED <<current_url, url_list, p_url_list, p_i, posts_content, logVars>>

\* Extracted with the next page taken as the page wrote it, not resolved
\* against BASE_URL
ExtractedUnresolved(r) ==
    /\ url_list' = r.url_list
    /\ IF r.next_page # <<>>
       THEN /\ current_url' = r.next_page[1]
            /\ pc' = "get_url_list"
            /\ UNCHANGED p_url_list
       ELSE /\ p_url_list' = r.url_list
            /\ pc' = "process_url_list"
            /\ UNCHANGED current_url

\* Extracted going round again, on the page it has, when the page has no
\* next-page link
ExtractedLooping(r) ==
    /\ url_list' = r.url_list
    /\ current_url' = IF r.next_page # <<>>
                      THEN absolutise_url(BASE_URL, r.next_page[1])
                      ELSE current_url
    /\ pc' = "get_url_list"
    /\ UNCHANGED p_url_list

\* url_list, next_page = extract_posts(body, url_list): go round again with
\* the next page, or return url_list, which process_url_list gets as its
\* argument
Extracted(r) ==
    /\ url_list' = r.url_list
    /\ IF r.next_page # <<>>
       THEN /\ current_url' = absolutise_url(BASE_URL, r.next_page[1])
            /\ pc' = "get_url_list"
            /\ UNCHANGED p_url_list
       ELSE /\ p_url_list' = r.url_list
            /\ pc' = "process_url_list"
            /\ UNCHANGED current_url

\* ReturnEmpty returning the posts gathered so far instead of []
ReturnPartial ==
    /\ p_url_list' = url_list
    /\ pc' = "process_url_list"
    /\ UNCHANGED <<current_url, url_list>>

\* if body is None: return [], which process_url_list gets as its argument
ReturnEmpty ==
    /\ p_url_list' = <<>>
    /\ pc' = "process_url_list"
    /\ UNCHANGED <<current_url, url_list>>

\* read_url has returned to get_url_list: return [] on None, else extract the
\* posts of the page
GetUrlListResume ==
    /\ pc = "crawl_wait"
    /\ rpc = "returned"
    /\ crawl_log' = Append(crawl_log, [url |-> current_url, ret |-> ret])
    /\ IF ret = <<>>
       THEN ReturnEmpty
       ELSE Extracted(extract_posts(ret[1], url_list, BASE_URL, DEFAULT_NEXT_PAGE))
    /\ Leave
    /\ UNCHANGED <<p_i, posts_content, post_log>>

\* the next pass of "for post in url_list": body = read_url(url)
ProcessFetch ==
    /\ pc = "process_url_list"
    /\ p_i < Len(p_url_list)
    /\ Call(p_url_list[p_i + 1].url)
    /\ pc' = "post_wait"
    /\ UNCHANGED <<current_url, url_list, p_url_list, p_i, posts_content, logVars>>

HR_LINK_OPEN == <<"\n", "<", "h", "r", ">", "<", "p", ">", "<", "a", " ", "h", "r", "e", "f", "=">>
HR_LINK_CLOSE == <<"<", "/", "a", ">", "<", "/", "p", ">">>
EOT_MARK == <<"\n", "\n", "E", "O", "T">>

\* the envelope of a post: without its first two lines, and up to "\n\nEOT"
StripEnvelope(body) == Split(Join(SliceFrom(Split(body, NL), 2), NL), EOT_MARK)[1]

\* the record process_url_list builds of a post and the body fetched for it
PostRecord(post, body) ==
    [url |-> post.url,
     date |-> post.date,
     title |-> post.title,
     html |-> gemtext_to_html(StripEnvelope(body), post.url)
              \o HR_LINK_OPEN \o post.url \o <<">">> \o post.url \o HR_LINK_CLOSE]

\* Collect leaving the loop, instead of going on with the next post, when the
\* fetch gave no body
CollectOrStop(post, r) ==
    IF r = <<>>
    THEN /\ pc' = "done"
         /\ UNCHANGED posts_content
    ELSE /\ posts_content' = Append(posts_content, PostRecord(post, r[1]))
         /\ pc' = "process_url_list"

\* if body is None: continue; else posts_content.append(post), and on to the
\* next post
Collect(post, r) ==
    IF r = <<>>
    THEN /\ pc' = "process_url_list"
         /\ UNCHANGED posts_content
    ELSE /\ posts_content' = Append(posts_content, PostRecord(post, r[1]))
         /\ pc' = "process_url_list"

\* read_url has returned to process_url_list: continue on None, else append
\* the record of the post
ProcessResume ==
    /\ pc = "post_wait"
    /\ rpc = "returned"
    /\ post_log' = Append(post_log, [url |-> p_url_list[p_i + 1].url, ret |-> ret,
                                     why |-> r_why])
    /\ Collect(p_url_list[p_i + 1], ret)
    /\ p_i' = p_i + 1
    /\ Leave
    /\ UNCHANGED <<current_url, url_list, p_url_list, crawl_log>>

\* return posts_content
ProcessReturn ==
    /\ pc = "process_url_list"
    /\ p_i = Len(p_url_list)
    /\ pc' = "done"
    /\ UNCHANGED <<current_url, url_list, p_url_list, p_i, posts_content, readVars, logVars>>

(***************************************************************************)
(* Specifications                                                          *)
(***************************************************************************)
vars == <<crawlVars, renderVars, extractVars, urlVars>>

Init == CrawlInit /\ RenderOff /\ ExtractOff /\ UrlOff

Next == \/ GetUrlListFetch /\ UNCHANGED <<renderVars, extractVars, urlVars>>
        \/ GetUrlListResume /\ UNCHANGED <<renderVars, extractVars, urlVars>>
        \/ ProcessFetch /\ UNCHANGED <<renderVars, extractVars, urlVars>>
        \/ ProcessResume /\ UNCHANGED <<renderVars, extractVars, urlVars>>
        \/ ProcessReturn /\ UNCHANGED <<renderVars, extractVars, urlVars>>
        \/ ConnectOk /\ UNCHANGED <<renderVars, extractVars, urlVars>>
        \/ ConnectGaierror /\ UNCHANGED <<renderVars, extractVars, urlVars>>
        \/ ConnectOSError /\ UNCHANGED <<renderVars, extractVars, urlVars>>
        \/ Send /\ UNCHANGED <<renderVars, extractVars, urlVars>>
        \/ ReadHeader /\ UNCHANGED <<renderVars, extractVars, urlVars>>
        \/ Dispatch /\ UNCHANGED <<renderVars, extractVars, urlVars>>
        \/ Finish /\ UNCHANGED <<renderVars, extractVars, urlVars>>

\* the whole program
Spec == Init /\ [][Next]_vars

\* the urls of the single fetches
FetchUrls == {BASE_URL,
              <<"g", "e", "m", "i", "n", "i", ":", "/", "/", "h", "/", "p", "/", "1">>,
              <<"g", "e", "m", "i", "n", "i", ":", "/", "/", "h", "/", "a", "/", "b", "/">>}

\* one call of read_url, entered
FetchInit == /\ pc = "fetch"
             /\ current_url = <<>>
             /\ url_list = <<>>
             /\ p_url_list = <<>>
             /\ p_i = 0
             /\ posts_content = <<>>
             /\ rpc = "connect"
             /\ url \in FetchUrls
             /\ netloc = Netloc(url)
             /\ status = <<>>
             /\ mime = <<>>
             /\ ret = <<>>
             /\ exc = ""
             /\ r_hops = 0
             /\ r_selfonly = TRUE
             /\ r_why = ""
             /\ r_first = url
             /\ r_inputs = 0
             /\ r_redirected = FALSE
             /\ r_balance = 0
             /\ r_header = <<>>
             /\ r_body = <<>>
             /\ s_host = <<>>
             /\ s_requests = 0
             /\ s_line = <<>>
             /\ crawl_log = <<>>
             /\ post_log = <<>>

FetchNext == \/ ConnectOk /\ UNCHANGED <<renderVars, extractVars, urlVars>>
             \/ ConnectGaierror /\ UNCHANGED <<renderVars, extractVars, urlVars>>
             \/ ConnectOSError /\ UNCHANGED <<renderVars, extractVars, urlVars>>
             \/ Send /\ UNCHANGED <<renderVars, extractVars, urlVars>>
             \/ ReadHeader /\ UNCHANGED <<renderVars, extractVars, urlVars>>
             \/ Dispatch /\ UNCHANGED <<renderVars, extractVars, urlVars>>
             \/ Finish /\ UNCHANGED <<renderVars, extractVars, urlVars>>

\* read_url moves on from where it stands
Advance == /\ rpc \in {"connect", "send", "header", "dispatch", "finish"}
           /\ rpc' \in {"connect", "send", "header", "dispatch", "finish",
                        "returned", "raised"}
           /\ rpc' # rpc

\* read_url on its own.  The code is sequential and every call it makes
\* returns or raises, so read_url takes its next step whenever it has one:
\* every step of FetchNext changes rpc, and one is possible wherever read_url
\* stands before it returns or raises, so the fairness is weak fairness of
\* FetchNext, stated on rpc alone
FetchStart == FetchInit /\ RenderOff /\ ExtractOff /\ UrlOff

FairFetch == FetchStart /\ [][FetchNext]_vars /\ WF_rpc(Advance)

\* the same, with nothing said about progress
SpecFetch == FetchStart /\ [][FetchNext]_vars

\* get_url_list on its own: the crawl of the index pages, up to its return
CrawlNext == \/ GetUrlListFetch /\ UNCHANGED <<renderVars, extractVars, urlVars>>
             \/ GetUrlListResume /\ UNCHANGED <<renderVars, extractVars, urlVars>>
             \/ pc = "crawl_wait" /\ FetchNext

\* get_url_list or the read_url it called moves on from where it stands
CrawlAdvance == /\ pc \in {"get_url_list", "crawl_wait"}
                /\ pc' \in {"get_url_list", "crawl_wait", "process_url_list", "crashed"}
                /\ rpc' \in {"idle", "connect", "send", "header", "dispatch", "finish",
                             "returned", "raised"}
                /\ <<pc', rpc'>> # <<pc, rpc>>

CrawlStart == CrawlInit /\ RenderOff /\ ExtractOff /\ UrlOff

\* The code is sequential: get_url_list takes its next step whenever it has
\* one.  Every step of CrawlNext changes pc or rpc, and one is possible
\* wherever get_url_list stands before it returns or an exception leaves it,
\* so the fairness is weak fairness of CrawlNext, stated on pc and rpc alone
FairCrawl == CrawlStart /\ [][CrawlNext]_vars /\ WF_<<pc, rpc>>(CrawlAdvance)

RenderNext == \/ RenderLine /\ UNCHANGED <<crawlVars, extractVars, urlVars>>
              \/ RenderReturn /\ UNCHANGED <<crawlVars, extractVars, urlVars>>

\* gemtext_to_html on every text of at most MaxLines lines
RenderStart == CrawlOff /\ RenderInit /\ ExtractOff /\ UrlOff

SpecRender == RenderStart /\ [][RenderNext]_vars

\* several calls of gemtext_to_html, one after the other
CallsNext == \/ RenderLine /\ UNCHANGED <<crawlVars, extractVars, urlVars>>
             \/ RenderReturn /\ UNCHANGED <<crawlVars, extractVars, urlVars>>
             \/ RenderCall /\ UNCHANGED <<crawlVars, extractVars, urlVars>>

CallsStart == CrawlOff /\ CallsInit /\ ExtractOff /\ UrlOff

SpecCalls == CallsStart /\ [][CallsNext]_vars

ExtractNext == \/ ExtractLine /\ UNCHANGED <<crawlVars, renderVars, urlVars>>
               \/ ExtractReturn /\ UNCHANGED <<crawlVars, renderVars, urlVars>>

\* extract_posts on every page of at most MaxPageLines lines
ExtractStart == CrawlOff /\ RenderOff /\ ExtractInit /\ UrlOff

SpecExtract == ExtractStart /\ [][ExtractNext]_vars

UrlNext == \/ Resolve /\ UNCHANGED <<crawlVars, renderVars, extractVars>>
           \/ ResolveAgain /\ UNCHANGED <<crawlVars, renderVars, extractVars>>

\* absolutise_url on every base and reference of UrlBases and UrlRefs
UrlStart == CrawlOff /\ RenderOff /\ ExtractOff /\ UrlInit

SpecUrl == UrlStart /\ [][UrlNext]_vars

(***************************************************************************)
(* The crawl: order of the pages and of the posts                          *)
(***************************************************************************)
\* the posts and the next-page target that one page yields on its own
PagePosts(body) == extract_posts(body, <<>>, BASE_URL, DEFAULT_NEXT_PAGE).url_list
PageNext(body) == extract_posts(body, <<>>, BASE_URL, DEFAULT_NEXT_PAGE).next_page

\* the posts of the pages of a crawl log, page after page
RECURSIVE ChainPosts(_)
ChainPosts(log) ==
    IF Len(log) = 0 THEN <<>>
    ELSE ChainPosts(SubSeq(log, 1, Len(log) - 1)) \o PagePosts(log[Len(log)].ret[1])

\* every index fetch so far gave a body
AllFetched == \A i \in 1..Len(crawl_log) : crawl_log[i].ret # <<>>

\* get_url_list stands at the top of its loop, or has just returned
AtLoopTop == pc = "get_url_list"
Returned == pc = "process_url_list" /\ p_i = 0

\* C1: while every index fetch succeeds, the pages are fetched in chain order:
\* the first is BASE_URL and each later one is the next-page target of the
\* page before it, resolved against BASE_URL; the accumulated post list is the
\* concatenation, in visit order, of the posts of each page in line order; and
\* get_url_list returns that list, after a page without a next-page link.
\* Stated where get_url_list has just taken the result of a fetch.
C1_ChainOrderAndConcatenation ==
    ((AtLoopTop \/ Returned) /\ AllFetched) =>
        /\ \A i \in 1..Len(crawl_log) :
              IF i = 1 THEN crawl_log[i].url = BASE_URL
              ELSE /\ PageNext(crawl_log[i - 1].ret[1]) # <<>>
                   /\ crawl_log[i].url =
                         absolutise_url(BASE_URL, PageNext(crawl_log[i - 1].ret[1])[1])
        /\ url_list = ChainPosts(crawl_log)
        /\ Returned => /\ Len(crawl_log) >= 1
                       /\ PageNext(crawl_log[Len(crawl_log)].ret[1]) = <<>>
                       /\ p_url_list = ChainPosts(crawl_log)

\* a crawl of two pages, both fetched, has returned the posts of both
C1_Witness ==
    /\ Returned
    /\ Len(crawl_log) = 2
    /\ AllFetched
    /\ Len(PagePosts(crawl_log[1].ret[1])) = 2
    /\ Len(PagePosts(crawl_log[2].ret[1])) >= 1
    /\ Len(p_url_list) >= 3

\* C2: an index fetch that yields no body is the last fetch of the crawl, and
\* get_url_list then returns the empty list, whatever the earlier pages gave:
\* no post is handed to process_url_list.
C2_IndexFailureReturnsEmpty ==
    /\ \A i \in 1..(Len(crawl_log) - 1) : crawl_log[i].ret # <<>>
    /\ (Len(crawl_log) >= 1 /\ crawl_log[Len(crawl_log)].ret = <<>>) =>
          /\ pc \in {"process_url_list", "done"}
          /\ p_url_list = <<>>
          /\ post_log = <<>>
          /\ posts_content = <<>>

\* the second page failed after the first had given posts
C2_Witness ==
    /\ pc = "done"
    /\ Len(crawl_log) = 2
    /\ crawl_log[2].ret = <<>>
    /\ Len(url_list) >= 2
    /\ p_url_list = <<>>

(***************************************************************************)
(* The posts: which are kept                                               *)
(***************************************************************************)
\* what a record carries of its post link
Brief(r) == [url |-> r.url, date |-> r.date, title |-> r.title]

\* the posts, from the i-th on, whose fetch gave a body
RECURSIVE Kept(_, _, _)
Kept(posts, log, i) ==
    IF i > Len(log) THEN <<>>
    ELSE (IF log[i].ret = <<>> THEN <<>> ELSE <<posts[i]>>) \o Kept(posts, log, i + 1)

\* every post fetch that failed so far failed on a non-success status
OnlyStatusFailures ==
    \A i \in 1..Len(post_log) : post_log[i].ret = <<>> => post_log[i].why = "status"

\* C3: when the post fetches that fail do so on a terminal non-success status,
\* the posts are fetched in the order of the list, the records are those of
\* the posts fetched with a body, in that order, each with the url, date and
\* title of its post link, and process_url_list returns only after the last
\* post of the list.
C3_FailedPostsSkipped ==
    OnlyStatusFailures =>
        /\ Len(post_log) = p_i
        /\ \A i \in 1..Len(post_log) : post_log[i].url = p_url_list[i].url
        /\ [i \in 1..Len(posts_content) |-> Brief(posts_content[i])]
              = Kept(p_url_list, post_log, 1)
        /\ pc = "done" => Len(post_log) = Len(p_url_list)

\* a post that failed on its status was followed by one that was kept
C3_Witness ==
    /\ pc = "done"
    /\ OnlyStatusFailures
    /\ Len(post_log) >= 2
    /\ post_log[1].ret = <<>>
    /\ post_log[1].why = "status"
    /\ post_log[2].ret # <<>>
    /\ Len(posts_content) >= 1

(***************************************************************************)
(* read_url: errors and termination                                        *)
(***************************************************************************)
\* C4: a network error, a connection failure as much as a name-resolution
\* failure, ends the fetch with the no-body outcome returned to the caller:
\* it never leaves read_url as an exception that ends the program.
C4_NetworkErrorIsNoResponse ==
    /\ r_why = "gaierror" => (rpc = "returned" /\ ret = <<>>)
    /\ exc # "OSError"

\* the requests of a fetch: from the connection to the test of the status
InFetch == rpc \in {"connect", "send", "header", "dispatch"}

\* C5: a fetch that is answered by nothing but redirects to the URL just
\* requested does not go on for ever: read_url leaves its loop.
C5_SelfRedirectEnds == InFetch ~> (~InFetch \/ ~r_selfonly)

(***************************************************************************)
(* gemtext_to_html: lists and preformatted blocks                          *)
(***************************************************************************)
\* the flags as line i of the text left them
PreformatAfter(i) == IF i < Len(g_trace) THEN g_trace[i + 1].preformat ELSE g_preformat
InListAfter(i) == IF i < Len(g_trace) THEN g_trace[i + 1].in_list ELSE g_in_list

\* a fence line: one that begins or ends with the fence
IsFence(line) == StartsWith(line, FENCE) \/ EndsWith(line, FENCE)

\* line i is a list item read outside a preformatted block
IsItem(i) == /\ ~g_trace[i].preformat
             /\ StartsWith(Strip(g_text[i]), <<"*", " ">>)

\* line i is a non-empty line that is not a list item
IsOther(i) == /\ Strip(g_text[i]) # <<>>
              /\ ~StartsWith(Strip(g_text[i]), <<"*", " ">>)

\* lines i..j are a whole run of list items, followed by a non-empty line
\* that is not a list item
IsRun(i, j) == /\ \A k \in i..j : IsItem(k)
               /\ i = 1 \/ ~IsItem(i - 1)
               /\ j < Len(g_trace)
               /\ IsOther(j + 1)

\* C6: for every run of list items followed by a non-empty line that is not a
\* list item, the list-open tag is emitted before the first item and before
\* no other, no list-close tag is emitted within the run, and the following
\* line is rendered after exactly one list-close tag.
C6_ListRunOpenedAndClosedOnce ==
    \A i \in 1..Len(g_trace) : \A j \in i..Len(g_trace) :
        IsRun(i, j) =>
            /\ \A k \in i..j : StartsWith(g_trace[k].out, UL_OPEN) <=> k = i
            /\ \A k \in i..j : /\ Contains(g_trace[k].out, LI_OPEN)
                                /\ ~Contains(g_trace[k].out, UL_CLOSE)
            /\ StartsWith(g_trace[j + 1].out, UL_CLOSE)
            /\ ~Contains(SliceFrom(g_trace[j + 1].out, Len(UL_CLOSE)), UL_CLOSE)

\* C7: a line read while a preformatted block is open and that is no fence
\* line is emitted as it is, opens and closes no list, and leaves the block
\* open.
C7_PreformattedVerbatim ==
    \A i \in 1..Len(g_trace) :
        (g_trace[i].preformat /\ ~IsFence(Strip(g_text[i]))) =>
            /\ g_trace[i].out = g_text[i] \o NL
            /\ PreformatAfter(i)
            /\ InListAfter(i) = g_trace[i].in_list

(***************************************************************************)
(* extract_posts: the link line as the specification reads it              *)
(***************************************************************************)
\* a link line
IsLink(line) == StartsWith(line, <<"=", ">">>)

\* the target: the first blank-delimited token after the prefix
TargetFrom(line, start) == Slice(line, start, EndOfToken(line, start))
LinkTarget(line) == TargetFrom(line, SkipBlank(line, 2))

\* the label: all that follows the target and the blanks after it
LabelFrom(line, start) == SliceFrom(line, SkipBlank(line, EndOfToken(line, start)))
LinkLabel(line) == LabelFrom(line, SkipBlank(line, 2))

\* the first blank-delimited token of a label, and what follows it
FirstToken(label) == Slice(label, 0, EndOfToken(label, 0))
AfterFirstToken(label) == SliceFrom(label, EndOfToken(label, 0) + 1)

\* next_page as the line before line i left it
NextPageBefore(i) == IF i = 1 THEN <<>> ELSE e_trace[i - 1].next_page

\* the post link of a dated link line
PostLinkOf(line, label) == [url |-> absolutise_url(BASE_URL, LinkTarget(line)),
                            date |-> FirstToken(label),
                            title |-> AfterFirstToken(label)]

\* C8: each line leaves the next-page URL as it found it, unless it is a link
\* line whose whole label is the marker, which sets it to its target; and a
\* marker line whose label does not start with a valid date adds no post.
C8_NextPageIsLastMarkerLine ==
    \A i \in 1..Len(e_trace) :
        /\ e_trace[i].next_page =
              IF IsLink(e_body[i]) /\ LinkLabel(e_body[i]) = e_marker
              THEN <<LinkTarget(e_body[i])>>
              ELSE NextPageBefore(i)
        /\ ( /\ IsLink(e_body[i])
             /\ LinkLabel(e_body[i]) = e_marker
             /\ ~is_valid_date(FirstToken(e_marker)) ) => e_trace[i].added = <<>>

\* C9: a link line whose first label token is a valid date adds exactly one
\* post, with that token as its date and the rest of the label as its title
\* (empty when the label is the date alone); any other line adds none.
C9_DatedLinkAddsOnePost ==
    \A i \in 1..Len(e_trace) :
        e_trace[i].added =
            IF IsLink(e_body[i]) /\ is_valid_date(FirstToken(LinkLabel(e_body[i])))
            THEN <<PostLinkOf(e_body[i], LinkLabel(e_body[i]))>>
            ELSE <<>>

(***************************************************************************)
(* absolutise_url                                                          *)
(***************************************************************************)
\* C10: a reference that holds a scheme separator is returned as it is, for
\* every base; and resolving the result once more against the same base
\* returns it unchanged.
C10_AbsoluteKeptAndIdempotent ==
    /\ (u_pc \in {"once", "twice"} /\ Contains(u_rel, SCHEME_SEP)) => u_once = u_rel
    /\ u_pc = "twice" => u_twice = u_once

\* a relative reference was resolved to something else, and resolving that
\* again changed nothing
C10_Witness ==
    /\ u_pc = "twice"
    /\ ~Contains(u_rel, SCHEME_SEP)
    /\ Contains(u_base, GEMINI_PREFIX)
    /\ u_once # u_rel
    /\ u_twice = u_once

(***************************************************************************)
(* C11: gemtext_to_html keeps no state between calls                       *)
(***************************************************************************)
\* a call of gemtext_to_html is at its first line
AtCallEntry == g_pc = "loop" /\ g_i = 0

SameOutput(a, b) == a.text = b.text => a.html = b.html

\* C11: every call of gemtext_to_html starts with the preformatted flag and
\* the list flag false and with empty html, whatever flags the call before
\* ended with, and any two calls that returned, in whatever order among
\* calls on other texts, returned the same html if they had the same text
C11_NoStateBetweenCalls ==
    /\ AtCallEntry => (~g_preformat /\ ~g_in_list /\ g_html = <<>>)
    /\ \A i \in DOMAIN g_calls : \A j \in DOMAIN g_calls :
           SameOutput(g_calls[i], g_calls[j])

\* three calls returned, the first and the last on the same text with a call
\* on another text between them, and the first two ended with a flag set
C11_Witness ==
    /\ Len(g_calls) = 3
    /\ g_calls[1].text = g_calls[3].text
    /\ g_calls[2].text # g_calls[1].text
    /\ g_calls[1].preformat
    /\ g_calls[2].in_list

(***************************************************************************)
(* C12: a malformed header line                                            *)
(***************************************************************************)
\* read_url has taken a header line
HeaderTaken == r_header # <<>>

\* the header line has fewer than two whitespace-separated tokens
Malformed(h) == Len(SplitBlank(Strip(h))) < 2

\* C12: once read_url has taken a header line with fewer than two
\* whitespace-separated tokens, no exception leaves read_url and the program
\* goes on: the fetch ends with no body and its caller treats it as any
\* failed fetch
C12_MalformedHeaderFailsFetchOnly ==
    (HeaderTaken /\ Malformed(r_header[1])) =>
        /\ rpc # "raised"
        /\ pc # "crashed"
        /\ rpc = "returned" => ret = <<>>

(***************************************************************************)
(* C13: a status that is no success ends the fetch with nothing read       *)
(***************************************************************************)
\* the loop of read_url has ended on a status that does not start with 2
EndedOnFailure == rpc = "finish" /\ ~StartsWith(status, <<"2">>)

SentAfterInputs == r_inputs >= 1 /\ ~r_redirected /\ r_balance = 1 /\ s_requests >= 1

\* C14: in a fetch all of whose answers so far asked for input, a request
\* sent after one or more of them carries the url read_url was called with
\* followed by "?" and one percent-encoded value typed, and is sent to the
\* host of that url
C14_OneQueryAfterInputs ==
    SentAfterInputs =>
        /\ \E query \in Queries : s_line = r_first \o <<"?">> \o Quote(query)
        /\ s_host = Netloc(r_first)

(***************************************************************************)
(* C15: the meta of a header line and the charset it declares              *)
(***************************************************************************)
\* what follows the first token of the header line h and the one space after
\* it
MetaFrom(s, n) == SliceFrom(s, n + 1)

MetaOf(h) == MetaFrom(Strip(h), EndOfToken(Strip(h), 0))

\* the charset the meta declares, UTF-8 if it declares none: the parameter
\* may follow the ";" after blanks
Declared(meta) == Charset(Join(SplitBlank(meta), <<>>))

\* C15: the meta read_url took from a header line of two or more tokens is
\* all that follows the status and the space after it, and when read_url has
\* read the body it returns the body decoded in the charset that meta
\* declares, in UTF-8 if it declares none
C15_MetaIsRemainderAndCharsetUsed ==
    (HeaderTaken /\ ~Malformed(r_header[1])) =>
        /\ mime = MetaOf(r_header[1])
        /\ r_body # <<>> =>
               /\ rpc = "returned"
               /\ ret = <<Decode(r_body[1], Declared(MetaOf(r_header[1])))>>

(***************************************************************************)
(* C16: the list flag after a line that is no list item                    *)
(***************************************************************************)
\* line i is rendered as a list item: read outside a preformatted block, no
\* fence line, and beginning with "* "
IsItemLine(i) == /\ ~g_trace[i].preformat
                 /\ ~IsFence(Strip(g_text[i]))
                 /\ StartsWith(Strip(g_text[i]), <<"*", " ">>)

\* line i is not empty and is rendered as something else than a list item
IsNonItemLine(i) == Strip(g_text[i]) # <<>> /\ ~IsItemLine(i)

\* C16: every non-empty line that is not rendered as a list item, a fence
\* line and a line inside a preformatted block among them, leaves the list
\* flag false, and if it found the flag true its output begins with the
\* list-close tag
C16_ListClosedByAnyOtherLine ==
    \A i \in 1..Len(g_trace) :
        IsNonItemLine(i) =>
            /\ ~InListAfter(i)
            /\ g_trace[i].in_list => StartsWith(g_trace[i].out, UL_CLOSE)

(***************************************************************************)
(* C17: one new connection for every request                               *)
(***************************************************************************)
\* read_url holds the connection of the request it is about, from
\* create_connection until it returns the outcome of the answer
HoldsConnection ==
    \/ rpc \in {"send", "header", "dispatch", "finish"}
    \/ rpc = "returned" /\ r_why # "gaierror"

\* the request of the connection held has been sent
RequestSent ==
    \/ rpc \in {"header", "dispatch", "finish"}
    \/ rpc = "returned" /\ r_why # "gaierror"

\* C17: no connection carries more than one request; while read_url holds
\* the connection of a request, the connections the fetch has opened are one
\* more than the redirect and input answers it has received, and once the
\* request is sent it is the only request of that connection; before a
\* connection is opened for the next request they are as many
C17_FreshConnectionPerRequest ==
    /\ s_requests <= 1
    /\ HoldsConnection => r_balance = 1
    /\ RequestSent => s_requests = 1
    /\ rpc = "send" => s_requests = 0
    /\ rpc = "connect" => r_balance = 0

\* read_url has returned a body after a redirect answer and an input answer
C17_Witness ==
    /\ rpc = "returned"
    /\ r_why = "body"
    /\ r_redirected
    /\ r_inputs >= 1
    /\ r_balance = 1
    /\ s_requests = 1

(***************************************************************************)
(* C20: the host connected to is the authority of the url requested        *)
(***************************************************************************)
\* C20: the connection read_url holds was opened to the authority of the url
\* it is about to send on it, and once the request is sent, to the authority
\* of the url sent
C20_HostIsAuthorityOfRequest ==
    /\ rpc = "send" => s_host = Netloc(url)
    /\ s_requests >= 1 => s_host = Netloc(s_line)

\* a request has been sent to another host than the first, after a redirect
\* there and an input answer
C20_Witness ==
    /\ rpc = "header"
    /\ r_redirected
    /\ r_inputs >= 1
    /\ s_requests = 1
    /\ s_host # Netloc(r_first)
    /\ Contains(s_line, <<"?">>)

(***************************************************************************)
(* C19: the list tags of the html returned                                 *)
(***************************************************************************)
\* the occurrences of p in s that begin at index i or after it
RECURSIVE CountFrom(_, _, _)
CountFrom(s, p, i) ==
    IF i + Len(p) > Len(s) THEN 0
    ELSE (IF StartsWithAt(s, p, i) THEN 1 ELSE 0) + CountFrom(s, p, i + 1)

\* C19: when gemtext_to_html returns, the list flag is false and the html
\* holds as many list-close tags as list-open tags
C19_ListsBalancedAtReturn ==
    g_pc = "done" =>
        /\ ~g_in_list
        /\ CountFrom(g_html, UL_OPEN, 0) = CountFrom(g_html, UL_CLOSE, 0)

(***************************************************************************)
(* C18: get_url_list returns                                               *)
(***************************************************************************)
\* the fetch of an index page is under way
IndexFetchUnderWay == pc = "crawl_wait" /\ rpc # "returned"

\* entry i of the crawl log is a page the chain ends at: its fetch failed, or
\* it has no next-page link
EndsChain(entry) == entry.ret = <<>> \/ PageNext(entry.ret[1]) = <<>>

\* no page is fetched after a page the chain ends at, and get_url_list has
\* returned once it has taken such a page
StopsAtFirstEnd ==
    /\ \A i \in 1..(Len(crawl_log) - 1) : ~EndsChain(crawl_log[i])
    /\ (Len(crawl_log) >= 1 /\ EndsChain(crawl_log[Len(crawl_log)])) =>
           pc = "process_url_list"

\* C18: get_url_list fetches no page after the first page that has no
\* next-page link or whose fetch fails, and returns when it has taken that
\* page; and if every fetch of an index page returns, get_url_list eventually
\* returns.  The chains of the capsule have at most MaxPages pages.
C18_GetUrlListReturns ==
    /\ []StopsAtFirstEnd
    /\ ([](IndexFetchUnderWay => <>(rpc = "returned"))) => <>(pc = "process_url_list")

\* get_url_list has returned after two pages, the second reached by the
\* next-page link of the first
C18_Witness ==
    /\ pc = "process_url_list"
    /\ Len(crawl_log) = 2
    /\ ~EndsChain(crawl_log[1])
    /\ EndsChain(crawl_log[2])

====
